---- MODULE Spec2Model ----
(***************************************************************************)
(* Verification model of the Kundli (Vedic birth chart) service:           *)
(*   kundlilabs_vPROD.py  - the chart engine and its result assembly       *)
(*   app.py               - the Flask endpoint /kundli and /health         *)
(*                                                                         *)
(* Numbers.  The engine computes on Python floats.  A longitude is         *)
(* modelled as an integer count of Unit-ths of a degree, and every         *)
(* arithmetic result is rounded to MantBits significant bits (round to     *)
(* nearest, ties to even), the way IEEE doubles round to 53.  Whole        *)
(* degrees below 2^MantBits are exact; Tiny is a magnitude below the       *)
(* resolution of any whole degree, as 1e-20 is for doubles.                *)
(***************************************************************************)
EXTENDS Integers, Sequences, FiniteSets, TLC

(* Record fields.  TLC keeps the fields of a record sorted in the order in   *)
(* which their names first occur in the module, and sorts a record the     *)
(* first time it is compared; a record sorted by two workers at once is    *)
(* corrupted.  The fields are therefore numbered here, in an order in      *)
(* which every record constructor below already lists them.                *)
RecordFields ==
    [ degree |-> 1, type |-> 2, ok |-> 3, raised |-> 4, dt |-> 5, py |-> 6,
      name |-> 7, date |-> 8, description |-> 9, error |-> 10, result |-> 11,
      house_number |-> 12, kind |-> 13, method |-> 14, geocode |-> 15,
      planet_degree |-> 16, chars |-> 17, num |-> 18, year |-> 19,
      value |-> 20, tz |-> 21, keys |-> 22, items |-> 23, deg |-> 24,
      time |-> 25, birth_info |-> 26, success |-> 27, required_fields |-> 28,
      rashi |-> 29, cusps |-> 30, xx |-> 31, is_json |-> 32, timezone |-> 33,
      sun_degree |-> 34, month |-> 35, vals |-> 36, status |-> 37,
      place |-> 38, lagna |-> 39, kundli_data |-> 40, received_data |-> 41,
      retrograde |-> 42, eph |-> 43, strict |-> 44, calc_ut |-> 45,
      day |-> 46, body |-> 47, service |-> 48, birthdate |-> 49,
      coordinates |-> 50, houses |-> 51, note |-> 52, issue |-> 53,
      combust |-> 54, fixed |-> 55, houses_ex |-> 56, hour |-> 57,
      calls |-> 58, version |-> 59, birthtime |-> 60, minute |-> 61,
      sid_set |-> 62, mode |-> 63, date_display |-> 64, computed |-> 65,
      lat |-> 66, trace |-> 67, lon |-> 68, timezone_str |-> 69,
      jd_ut |-> 70, speed |-> 71, dt_local |-> 72, planets |-> 73,
      house_cusps |-> 74, house_signs |-> 75, house_planets |-> 76,
      done |-> 77, own_set |-> 78, birth_data |-> 79, answers |-> 80,
      birth_details |-> 81, rashis |-> 82, degree_in_sign |-> 83 ]

VARIABLES
    fn,         \* pure-function harness: the function applied
    args,       \* pure-function harness: its arguments
    ret,        \* pure-function harness: its result ("pending" before the call)
    request,    \* service: the HTTP request being answered
    env,        \* service: the external collaborators' answers for it
    response,   \* service: the HTTP response sent
    calls,      \* service: adapter / main calls made for it, in order
    chart,      \* service: intermediate values of the chart computation
    sid_mode,   \* the ephemeris library's process-wide sidereal mode
    threads     \* concurrent requests: how far each is in its library calls

fnVars  == <<fn, args, ret>>
svcVars == <<request, env, response, calls, chart, sid_mode, threads>>
vars    == <<fn, args, ret, request, env, response, calls, chart, sid_mode, threads>>

----------------------------------------------------------------------------
(* Float arithmetic *)

MantBits == 12
FracBits == MantBits + 1

RECURSIVE Pow2(_)
Pow2(n) == IF n = 0 THEN 1 ELSE 2 * Pow2(n - 1)

Unit == Pow2(FracBits)
Tiny == 1

Deg(n) == n * Unit

Abs(x) == IF x < 0 THEN 0 - x ELSE x

RECURSIVE BitLen(_)
BitLen(n) == IF n = 0 THEN 0 ELSE 1 + BitLen(n \div 2)

\* round a non-negative magnitude to MantBits significant bits
RoundMag(a) ==
    LET e  == BitLen(a)
        q  == IF e > MantBits THEN Pow2(e - MantBits) ELSE 1
        lo == (a \div q) * q
        r2 == 2 * (a - lo)
    IN  IF r2 < q THEN lo
        ELSE IF r2 > q THEN lo + q
        ELSE IF (lo \div q) % 2 = 0 THEN lo ELSE lo + q

Round(v) == IF v < 0 THEN 0 - RoundMag(0 - v) ELSE RoundMag(v)

FAdd(x, y) == Round(x + y)
FSub(x, y) == Round(x - y)

\* C fmod: exact, result has the sign of x
Fmod(x, m) == IF x < 0 THEN 0 - ((0 - x) % m) ELSE x % m

\* Python float x % m for m > 0: fmod, then one rounded addition of m when
\* the remainder is negative
PyMod(x, m) ==
    LET r == Fmod(x, m)
    IN  IF r < 0 THEN FAdd(r, m) ELSE r

\* Python float x // m for x >= 0, m > 0
PyFloorDiv(x, m) == x \div m

----------------------------------------------------------------------------
(* Constants and utility functions *)

RASHIS ==
    << "Aries", "Taurus", "Gemini", "Cancer", "Leo", "Virgo",
       "Libra", "Scorpio", "Sagittarius", "Capricorn", "Aquarius", "Pisces" >>

RashiNames == { RASHIS[i] : i \in 1..12 }

IndexError == "IndexError"

normalize_degree(degree) == PyMod(degree, Deg(360))

rashi_index(degree) == PyFloorDiv(normalize_degree(degree), Deg(30))

\* RASHIS[rashi_index]: the list has indices 0..11 (and -12..-1, never
\* produced here since the index is not negative)
get_rashi(degree) ==
    LET i == rashi_index(degree)
    IN  IF i \in 0..11 THEN RASHIS[i + 1] ELSE IndexError

get_degree_within_sign(degree) == PyMod(normalize_degree(degree), Deg(30))

----------------------------------------------------------------------------
(* Planetary positions *)

\* PLANETS, in the dictionary's insertion order
PLANETS == << "Sun", "Moon", "Mars", "Mercury", "Jupiter", "Venus", "Saturn", "Rahu" >>

PlanetIds == { PLANETS[i] : i \in 1..8 }

\* planet_data's insertion order once Ketu is added
PlanetOrder == PLANETS \o << "Ketu" >>

PlanetNames == PlanetIds \cup { "Ketu" }

\* the nodes left in the combustion loop
NeverCombust_SunOnly == { "Sun" }

\* the names the combustion loop skips
NeverCombust == { "Sun", "Rahu", "Ketu" }

\* angular_distance = abs((planet_degree - sun_degree + 180) % 360 - 180)
angular_distance(planet_degree, sun_degree) ==
    Abs(FSub(PyMod(FAdd(FSub(planet_degree, sun_degree), Deg(180)), Deg(360)), Deg(180)))

\* the threshold taken as exclusive
is_combust_strict(planet_degree, sun_degree) ==
    angular_distance(planet_degree, sun_degree) < Deg(10)

is_combust(planet_degree, sun_degree) ==
    angular_distance(planet_degree, sun_degree) <= Deg(10)

\* the entry built inside the loop over PLANETS from one calc_ut answer xx
\* (xx.lon = xx[0], xx.speed = xx[3])
planet_entry(xx) ==
    LET degree == normalize_degree(xx.lon)
    IN  [ degree     |-> degree,
          rashi      |-> get_rashi(degree),
          retrograde |-> xx.speed < 0,
          combust    |-> FALSE ]

ketu_entry(rahu_degree) ==
    LET ketu_degree == normalize_degree(FAdd(rahu_degree, Deg(180)))
    IN  [ degree     |-> ketu_degree,
          rashi      |-> get_rashi(ketu_degree),
          retrograde |-> TRUE,
          combust    |-> FALSE ]

\* eph[p] is the answer of swe.calc_ut for body p
get_planet_positions(eph) ==
    LET base == [ p \in PlanetNames |->
                    IF p = "Ketu" THEN ketu_entry(planet_entry(eph["Rahu"]).degree)
                    ELSE planet_entry(eph[p]) ]
        sun_degree == base["Sun"].degree
    IN  [ p \in PlanetNames |->
            IF p \in NeverCombust THEN base[p]
            ELSE [ base[p] EXCEPT !.combust = is_combust(base[p].degree, sun_degree) ] ]

----------------------------------------------------------------------------
(* House calculations *)

KeyError == "KeyError"

Range(f) == { f[i] : i \in DOMAIN f }

\* the slice taken from the cusps array swe.houses_ex returned
get_houses(cusps) ==
    IF Len(cusps) = 13 THEN SubSeq(cusps, 2, 13)
    ELSE IF Len(cusps) = 12 THEN SubSeq(cusps, 1, 12)
    ELSE cusps

get_house_signs(house_cusps) ==
    [ i \in 1..Len(house_cusps) |-> get_rashi(normalize_degree(house_cusps[i])) ]

\* the scan without its break: the last matching house_num, 0 when none
first_match_no_break(planet_rashi, house_signs) ==
    IF \E i \in 1..Len(house_signs) : house_signs[i] = planet_rashi
    THEN CHOOSE i \in 1..Len(house_signs) :
            /\ house_signs[i] = planet_rashi
            /\ \A j \in (i + 1)..Len(house_signs) : house_signs[j] # planet_rashi
    ELSE 0

\* the house_num at which the inner loop breaks, 0 when it runs to the end
first_match(planet_rashi, house_signs) ==
    IF \E i \in 1..Len(house_signs) : house_signs[i] = planet_rashi
    THEN CHOOSE i \in 1..Len(house_signs) :
            /\ house_signs[i] = planet_rashi
            /\ \A j \in 1..(i - 1) : house_signs[j] # planet_rashi
    ELSE 0

\* house_planets has the keys 1..12 only: a match at a later position of a
\* longer house_signs raises KeyError; the tuples appended are named by
\* their planet
assign_raises(planets, house_signs) ==
    \E p \in PlanetNames : first_match(planets[p].rashi, house_signs) > 12

assign_planets_to_houses(planets, house_signs) ==
    IF assign_raises(planets, house_signs)
    THEN KeyError
    ELSE [ house_num \in 1..12 |->
             SelectSeq(PlanetOrder,
                       LAMBDA p : first_match(planets[p].rashi, house_signs) = house_num) ]

----------------------------------------------------------------------------
(* Strings and JSON values *)

\* A string is a sequence of characters; a place name or a template token
\* is kept as one element that counts as several characters.
DigitChars == { "0", "1", "2", "3", "4", "5", "6", "7", "8", "9" }

DigitVal(c) ==
    CASE c = "0" -> 0 [] c = "1" -> 1 [] c = "2" -> 2 [] c = "3" -> 3 [] c = "4" -> 4
      [] c = "5" -> 5 [] c = "6" -> 6 [] c = "7" -> 7 [] c = "8" -> 8 [] c = "9" -> 9

DigitChar(n) == CHOOSE c \in DigitChars : DigitVal(c) = n

CharCount(c) == IF c \in DigitChars \cup { "-", ":", " ", "+", "x" } THEN 1 ELSE 4

RECURSIVE StrLen(_)
StrLen(s) == IF s = << >> THEN 0 ELSE CharCount(Head(s)) + StrLen(Tail(s))

\* a JSON string / number as a Python value
PyStr(chars) == [ type |-> "str", chars |-> chars ]
PyInt(n)     == [ type |-> "int", num |-> n ]

RECURSIVE Decimal(_)
Decimal(n) == IF n < 10 THEN << DigitChar(n) >> ELSE Decimal(n \div 10) \o << DigitChar(n % 10) >>

\* str(value)
str(v) == IF v.type = "str" THEN v.chars ELSE Decimal(v.num)

\* s.zfill(2)
zfill2(s) ==
    IF StrLen(s) >= 2 THEN s
    ELSE IF s = << >> THEN << "0", "0" >>
    ELSE IF Head(s) \in { "+", "-" } THEN << Head(s), "0" >>
    ELSE << "0" >> \o s

AllDigits(s) == \A i \in 1..Len(s) : s[i] \in DigitChars

RECURSIVE Number(_)
Number(s) == IF s = << >> THEN 0 ELSE 10 * Number(SubSeq(s, 1, Len(s) - 1)) + DigitVal(s[Len(s)])

RECURSIVE Split(_, _)
Split(s, sep) ==
    IF \E i \in 1..Len(s) : s[i] = sep
    THEN LET i == CHOOSE j \in 1..Len(s) : s[j] = sep /\ \A k \in 1..(j - 1) : s[k] # sep
         IN  << SubSeq(s, 1, i - 1) >> \o Split(SubSeq(s, i + 1, Len(s)), sep)
    ELSE << s >>

----------------------------------------------------------------------------
(* Location and time handling *)

STATIC_PLACE     == << "Samastipur" >>
STATIC_BIRTHDATE == << "1", "9", "9", "5", "-", "1", "0", "-", "0", "9" >>
STATIC_BIRTHTIME == << "8", ":", "2", "2" >>

IsLeap(y) == (y % 4 = 0 /\ y % 100 # 0) \/ y % 400 = 0

DaysInMonth(y, m) ==
    IF m = 2 THEN (IF IsLeap(y) THEN 29 ELSE 28)
    ELSE IF m \in { 4, 6, 9, 11 } THEN 30 ELSE 31

\* a field of 1 or 2 digits with a value in lo..hi (%m, %d, %H, %M)
FieldOk(s, lo, hi) == Len(s) \in 1..2 /\ AllDigits(s) /\ Number(s) \in lo..hi

\* datetime.strptime(f"{birthdate} {birthtime}", "%Y-%m-%d %H:%M")
strptime(birthdate, birthtime) ==
    LET d == Split(birthdate, "-")
        t == Split(birthtime, ":")
    IN  IF /\ Len(d) = 3
           /\ Len(t) = 2
           /\ Len(d[1]) = 4 /\ AllDigits(d[1]) /\ Number(d[1]) >= 1
           /\ FieldOk(d[2], 1, 12)
           /\ FieldOk(d[3], 1, 31)
           /\ Number(d[3]) <= DaysInMonth(Number(d[1]), Number(d[2]))
           /\ FieldOk(t[1], 0, 23)
           /\ FieldOk(t[2], 0, 59)
        THEN [ ok |-> TRUE,
               year |-> Number(d[1]), month |-> Number(d[2]), day |-> Number(d[3]),
               hour |-> Number(t[1]), minute |-> Number(t[2]) ]
        ELSE [ ok |-> FALSE ]

\* The outcome of a step: the exception it raised ("none" when it returned),
\* the collaborator calls it made, and its values.
\* e holds what the collaborators answer when asked:
\*   e.geocode   kind "error" (the geocoder raises), "none" (no location)
\*               or "location" with lat, lon
\*   e.timezone  "none" or a zone id
\*   e.calc_ut   kind "error" (swe.calc_ut raises) or "ok" with xx, the
\*               answers per body
\*   e.houses_ex kind "error" (swe.houses_ex raises) or "ok" with cusps
get_location_details(place_name, birthdate, birthtime, e) ==
    IF place_name.type # "str"
    THEN [ raised |-> "TypeError", calls |-> << >> ]
    ELSE IF e.geocode.kind = "error"
    THEN [ raised |-> "GeocoderError", calls |-> << "geocode" >> ]
    ELSE IF e.geocode.kind = "none"
    THEN [ raised |-> "ValueError: Could not geocode place", calls |-> << "geocode" >> ]
    ELSE IF e.timezone = "none"
    THEN [ raised |-> "ValueError: Could not determine timezone",
           calls |-> << "geocode", "timezone_at" >> ]
    ELSE IF ~ strptime(birthdate, birthtime).ok
    THEN [ raised |-> "ValueError: time data does not match format",
           calls |-> << "geocode", "timezone_at", "strptime" >> ]
    ELSE [ raised |-> "none",
           calls |-> << "geocode", "timezone_at", "strptime" >>,
           lat |-> e.geocode.lat, lon |-> e.geocode.lon,
           timezone_str |-> e.timezone,
           dt_local |-> [ dt |-> strptime(birthdate, birthtime), tz |-> e.timezone ] ]

\* the Julian Day is kept as the instant it is computed from
get_julian_day(dt_local) == dt_local

\* The ephemeris library keeps one sidereal mode per process.  An answer
\* e.calc_ut.xx or e.houses_ex.cusps holds the longitudes the library gives
\* under SIDM_LAHIRI; under the mode it starts with they differ by the gap
\* between the two ayanamsas.
SidModes == { "unset", "SIDM_LAHIRI" }

AyanamsaGap == Deg(1)

\* a longitude given under the mode the library starts with
Shifted(lon) == (lon - AyanamsaGap) % Deg(360)

\* swe.calc_ut(jd_ut, planet_id, flag) for every body, the mode being mode
swe_calc_ut(xx, mode) ==
    IF mode = "SIDM_LAHIRI" THEN xx
    ELSE [ p \in DOMAIN xx |-> [ xx[p] EXCEPT !.lon = Shifted(@) ] ]

\* swe.houses_ex(jd_ut, lat, lon, b'A', swe.FLG_SIDEREAL), the mode being mode
swe_houses_ex(cusps, mode) ==
    IF mode = "SIDM_LAHIRI" THEN cusps
    ELSE [ i \in DOMAIN cusps |-> Shifted(cusps[i]) ]

\* get_planet_positions leaving the mode as it finds it
get_planet_positions_calls_mode_kept == [ i \in 1..Len(PLANETS) |-> "calc_ut" ]

\* the library calls of get_planet_positions, in order: set_sid_mode, then
\* calc_ut once for each of PLANETS
get_planet_positions_calls ==
    << "set_sid_mode" >> \o [ i \in 1..Len(PLANETS) |-> "calc_ut" ]

\* the library calls of get_houses, in order
get_houses_calls == << "set_sid_mode", "houses_ex" >>

\* the mode once calls_made have run, mode being the mode before them
ModeAfter(mode, calls_made) ==
    IF \E i \in 1..Len(calls_made) : calls_made[i] = "set_sid_mode"
    THEN "SIDM_LAHIRI" ELSE mode

\* the calls up to and including the first call of op
UpTo(calls_made, op) ==
    SubSeq(calls_made, 1, CHOOSE i \in 1..Len(calls_made) :
                            /\ calls_made[i] = op
                            /\ \A j \in 1..(i - 1) : calls_made[j] # op)

\* the mode in which the first call of op runs
ModeAt(mode, calls_made, op) ==
    LET before == UpTo(calls_made, op)
    IN  ModeAfter(mode, SubSeq(before, 1, Len(before) - 1))

\* lines 570-579 (and 700-710): the adapters' answers turned into planets,
\* house signs and the assignment; mode is the library's mode when the
\* computation starts
compute_chart(place, birthdate, birthtime, e, mode) ==
    LET loc == get_location_details(place, birthdate, birthtime, e)
    IN  IF loc.raised # "none"
        THEN [ raised |-> loc.raised, calls |-> loc.calls, sid_set |-> FALSE,
               mode |-> mode ]
        ELSE
        LET c1 == loc.calls \o << "julday" >> \o UpTo(get_planet_positions_calls, "calc_ut")
            m1 == ModeAt(mode, get_planet_positions_calls, "calc_ut")
        IN  IF e.calc_ut.kind = "error"
            THEN [ raised |-> "swisseph.Error: calc_ut", calls |-> c1,
                   sid_set |-> ModeAfter("unset", c1) # "unset", mode |-> mode ]
            ELSE
            LET c2 == loc.calls \o << "julday" >> \o get_planet_positions_calls
                                \o get_houses_calls
                m2 == ModeAt(ModeAfter(mode, get_planet_positions_calls),
                             get_houses_calls, "houses_ex")
            IN  IF e.houses_ex.kind = "error"
                THEN [ raised |-> "swisseph.Error: houses_ex", calls |-> c2,
                       sid_set |-> ModeAfter("unset", c2) # "unset", mode |-> mode ]
                ELSE
                LET xx            == swe_calc_ut(e.calc_ut.xx, m1)
                    cusps         == swe_houses_ex(e.houses_ex.cusps, m2)
                    planets       == get_planet_positions(xx)
                    house_cusps   == get_houses(cusps)
                    house_signs   == get_house_signs(house_cusps)
                    house_planets == assign_planets_to_houses(planets, house_signs)
                IN  [ raised        |-> IF assign_raises(planets, house_signs)
                                        THEN KeyError ELSE "none",
                      calls         |-> c2,
                      sid_set       |-> ModeAfter("unset", c2) # "unset",
                      mode          |-> mode,
                      lat           |-> loc.lat,
                      lon           |-> loc.lon,
                      jd_ut         |-> get_julian_day(loc.dt_local),
                      planets       |-> planets,
                      house_cusps   |-> house_cusps,
                      house_signs   |-> house_signs,
                      house_planets |-> house_planets ]

----------------------------------------------------------------------------
(* Result assembly *)

\* a Python dict: its keys in insertion order and their values
Dict(keys, vals) == [ py |-> "dict", keys |-> keys, vals |-> vals ]

EmptyDict == Dict(<< >>, << >>)

List(items) == [ py |-> "list", items |-> items ]

None == [ py |-> "None" ]

Has(d, k) == k \in Range(d.keys)

\* d.get(k, default)
Get(d, k, default) == IF Has(d, k) THEN d.vals[k] ELSE default

\* bool(value): None, the empty dict and the empty list are false
Truthy(value) ==
    CASE value.py = "dict" -> value.keys # << >>
      [] value.py = "list" -> value.items # << >>
      [] OTHER -> FALSE

\* a / b rounded to the nearest integer, ties to even (a >= 0, b > 0)
RoundDiv(a, b) ==
    LET q == a \div b
        r == 2 * (a % b)
    IN  IF r < b THEN q ELSE IF r > b THEN q + 1 ELSE IF q % 2 = 0 THEN q ELSE q + 1

\* f"{x:.2f}" of a degree: hundredths of a degree
fmt2(x) == RoundDiv(x * 100, Unit)

\* f"{x:.4f}" of a coordinate held in 1/100000 degree: 1/10000 degree
fmt4(x) == IF x < 0 THEN 0 - RoundDiv(0 - x, 10) ELSE RoundDiv(x, 10)

\* f"{planet_name}({degree_in_sign:.2f}deg){status_str}"
planet_string(planet_name, planet_data) ==
    [ name   |-> planet_name,
      deg    |-> fmt2(get_degree_within_sign(planet_data.degree)),
      status |-> (IF planet_data.retrograde THEN << "R" >> ELSE << >>)
                   \o (IF planet_data.combust THEN << "Combust" >> ELSE << >>) ]

\* ", ".join(planet_strings), "" when the house is empty: the strings joined
planets_display(planets, planets_in_house) ==
    [ i \in 1..Len(planets_in_house) |->
        planet_string(planets_in_house[i], planets[planets_in_house[i]]) ]

LagnaDescription == "LAGNA represents the Ascendant or 1st House"

\* the birth strings composed from birth_data, or the static profile
birth_strings(birth_data) ==
    IF Truthy(birth_data)
    THEN LET day    == zfill2(str(Get(birth_data, "ddd", PyStr(<< "0", "9" >>))))
             month  == zfill2(str(Get(birth_data, "mmm", PyStr(<< "1", "0" >>))))
             year   == str(Get(birth_data, "yyyy", PyStr(<< "1", "9", "9", "5" >>)))
             hour   == zfill2(str(Get(birth_data, "hh", PyStr(<< "8" >>))))
             minute == zfill2(str(Get(birth_data, "mm", PyStr(<< "2", "2" >>))))
         IN  [ place        |-> Get(birth_data, "place", PyStr(STATIC_PLACE)),
               birthdate    |-> year \o << "-" >> \o month \o << "-" >> \o day,
               birthtime    |-> hour \o << ":" >> \o minute,
               date_display |-> day \o << "-" >> \o month \o << "-" >> \o year ]
    ELSE LET parts == Split(STATIC_BIRTHDATE, "-")
         IN  [ place        |-> PyStr(STATIC_PLACE),
               birthdate    |-> STATIC_BIRTHDATE,
               birthtime    |-> STATIC_BIRTHTIME,
               date_display |-> parts[3] \o << "-" >> \o parts[2] \o << "-" >> \o parts[1] ]

\* an except branch returning its dict without the "error" key
Miscalculation_unflagged ==
    [ birth_info |-> [ date |-> << >>, time |-> << >>, place |-> << >>, coordinates |-> << >> ],
      lagna      |-> [ description |-> "Miscalculation", rashi |-> "" ],
      houses     |-> << >> ]

\* the dict returned by the except branch
Miscalculation ==
    [ error      |-> << "Miscalculation" >>,
      birth_info |-> [ date |-> << >>, time |-> << >>, place |-> << >>, coordinates |-> << >> ],
      lagna      |-> [ description |-> "Miscalculation", rashi |-> "" ],
      houses     |-> << >> ]

\* The outcome of a computation: the value returned, the collaborator calls
\* made, whether set_sid_mode ran, and the values it went through.
Outcome(result, c, b) ==
    [ result  |-> result,
      calls   |-> c.calls,
      sid_set |-> c.sid_set,
      trace   |-> [ raised    |-> c.raised,
                    result    |-> result,
                    birthdate |-> b.birthdate,
                    birthtime |-> b.birthtime,
                    computed  |-> c ] ]

\* the entries appended to result["houses"] for house_num = 1..upto
houses_list(c, upto) ==
    [ house_num \in 1..upto |->
        [ house_number |-> house_num,
          rashi        |-> c.house_signs[house_num],
          planets      |-> planets_display(c.planets, c.house_planets[house_num]) ] ]

\* the dict built by lines 582-628
clean_result(b, c) ==
    [ birth_info |-> [ date        |-> b.date_display,
                       time        |-> b.birthtime,
                       place       |-> b.place.chars,
                       coordinates |-> << fmt4(c.lat), fmt4(c.lon) >> ],
      lagna      |-> [ description |-> LagnaDescription,
                       rashi       |-> c.house_signs[1] ],
      houses     |-> houses_list(c, 12) ]

\* as generate_clean_json_output, but the except branch keeps the houses
\* appended before house_signs ran out
generate_clean_json_output_keeping_houses(birth_data, e, mode) ==
    LET b == birth_strings(birth_data)
        c == compute_chart(b.place, b.birthdate, b.birthtime, e, mode)
    IN  IF c.raised # "none"
        THEN Outcome(Miscalculation, c, b)
        ELSE IF Len(c.house_signs) < 12
        THEN Outcome([ Miscalculation EXCEPT !.houses = houses_list(c, Len(c.house_signs)) ],
                     [ c EXCEPT !.raised = IndexError ], b)
        ELSE Outcome(clean_result(b, c), c, b)

\* house_signs[0] (line 591) or house_signs[house_num - 1] (line 598) raises
\* IndexError when fewer than 12 signs came back
generate_clean_json_output(birth_data, e, mode) ==
    LET b == birth_strings(birth_data)
        c == compute_chart(b.place, b.birthdate, b.birthtime, e, mode)
    IN  IF c.raised # "none"
        THEN Outcome(Miscalculation, c, b)
        ELSE IF Len(c.house_signs) < 12
        THEN Outcome(Miscalculation, [ c EXCEPT !.raised = IndexError ], b)
        ELSE Outcome(clean_result(b, c), c, b)

\* prints the tables (or the error and its traceback) and returns nothing
display_table_output(e, mode) ==
    LET b == birth_strings(None)
        c == compute_chart(b.place, b.birthdate, b.birthtime, e, mode)
    IN  IF c.raised = "none" /\ Len(c.house_signs) < 12
        THEN Outcome(None, [ c EXCEPT !.raised = IndexError ], b)
        ELSE Outcome(None, c, b)

main(birth_data, e, mode) ==
    LET o == IF Truthy(birth_data)
             THEN generate_clean_json_output(birth_data, e, mode)
             ELSE display_table_output(e, mode)
    IN  [ o EXCEPT !.calls = << "main" >> \o @ ]

----------------------------------------------------------------------------
(* The Flask endpoint *)

required_fields == << "ddd", "mmm", "yyyy", "hh", "mm", "place" >>

\* "variableID" in str(value), for a string value
IsTemplate(v) == v.type = "str" /\ \E i \in 1..Len(v.chars) : v.chars[i] = "variableID"

\* the key at which the loop over data_json.items() returns, "" if none
first_template_key(data_json) ==
    IF \E i \in 1..Len(data_json.keys) : IsTemplate(data_json.vals[data_json.keys[i]])
    THEN data_json.keys[
            CHOOSE i \in 1..Len(data_json.keys) :
                /\ IsTemplate(data_json.vals[data_json.keys[i]])
                /\ \A j \in 1..(i - 1) : ~ IsTemplate(data_json.vals[data_json.keys[j]]) ]
    ELSE ""

\* the validation looking for the place only
missing_fields_place_only(data_json) == SelectSeq(<< "place" >>, LAMBDA f : ~ Has(data_json, f))

missing_fields(data_json) == SelectSeq(required_fields, LAMBDA f : ~ Has(data_json, f))

NoCalls == [ calls |-> << >>, sid_set |-> FALSE, trace |-> [ raised |-> "not run" ] ]

\* a response together with the outcome o of the computation behind it
Respond(status, body, o) ==
    [ status |-> status, body |-> body,
      calls |-> o.calls, sid_set |-> o.sid_set, trace |-> o.trace ]

Reply(status, body) == Respond(status, body, NoCalls)

\* the POST branch.  req.is_json: the content type is JSON; req.strict: what
\* request.get_json() gives; req.fixed: what json.loads gives on the text
\* after the four regex repairs (ok FALSE when the parse raises)
kundli_post(req, e, mode) ==
    IF ~ req.is_json
    THEN Reply(400, [ error |-> << "Content-Type must be application/json" >> ])
    ELSE IF ~ req.strict.ok /\ ~ req.fixed.ok
    THEN Reply(400, [ error |-> << "Invalid JSON format - could not auto-fix" >> ])
    ELSE
    LET data_json == IF req.strict.ok THEN req.strict.value ELSE req.fixed.value
    IN  IF ~ Truthy(data_json)
        THEN Reply(400, [ error |-> << "No JSON data provided or empty JSON" >> ])
        ELSE IF data_json.py # "dict"
        THEN Reply(500, [ error |-> << "Server error: AttributeError" >>, success |-> FALSE ])
        ELSE IF first_template_key(data_json) # ""
        THEN Reply(400, [ error         |-> << "Voiceflow template variables detected" >>,
                          received_data |-> data_json,
                          issue         |-> first_template_key(data_json) ])
        ELSE IF missing_fields(data_json) # << >>
        THEN Reply(400, [ error           |-> << "Missing required fields:" >>
                                                \o missing_fields(data_json),
                          required_fields |-> required_fields,
                          received_data   |-> data_json ])
        ELSE
        LET o == main(data_json, e, mode)
        IN  IF "error" \in DOMAIN o.result
            THEN Respond(500, o.result, o)
            ELSE Respond(200, [ success |-> TRUE, kundli_data |-> o.result ], o)

\* the GET branch
kundli_get(e, mode) ==
    LET o == main(None, e, mode)
    IN  Respond(200,
                [ success     |-> TRUE,
                  kundli_data |-> o.result,
                  note        |-> "Using static birth data for GET request" ],
                o)

health_check ==
    Reply(200, [ status |-> "healthy", service |-> "Kundli Labs API", version |-> "1.0" ])

----------------------------------------------------------------------------
(* Pure-function harness: the state before the service has taken a request *)

Unasked == [ kind |-> "unasked" ]

NoRequest  == [ method |-> "none" ]
NoEnv      == [ geocode |-> Unasked, timezone |-> "unasked", calc_ut |-> Unasked, houses_ex |-> Unasked ]
NoResponse == [ status |-> 0 ]
NoChart    == [ raised |-> "not run" ]

MaxThreads == 2

Threads == 1..MaxThreads

\* a request thread that has made none of its library calls
NotStarted == [ done |-> 0, own_set |-> FALSE ]

ServiceIdle ==
    /\ threads = [ t \in Threads |-> NotStarted ]
    /\ request = NoRequest
    /\ env = NoEnv
    /\ response = NoResponse
    /\ calls = << >>
    /\ chart = NoChart
    /\ sid_mode = "unset"

HarnessInit(inputs) ==
    /\ fn = "none"
    /\ args \in inputs
    /\ ret = "pending"
    /\ ServiceIdle

----------------------------------------------------------------------------
(* get_rashi and get_degree_within_sign over representable degrees *)

MaxTurns == 1

Representable(x) == Round(x) = x

\* whole and half degrees over MaxTurns turns either side of [0,360), and
\* magnitudes below the float resolution at 360
DegreeInputs ==
    { h * (Unit \div 2) : h \in (0 - 720 * MaxTurns) .. (720 * (MaxTurns + 1)) }
        \cup { Tiny, 0 - Tiny, 2 * Tiny, 0 - 2 * Tiny }

InitRashi == HarnessInit({ [ degree |-> x ] : x \in DegreeInputs })

ApplyGetRashi ==
    /\ fn = "none"
    /\ fn' = "get_rashi"
    /\ ret' = get_rashi(args.degree)
    /\ UNCHANGED << args, svcVars >>

ApplyGetDegreeWithinSign ==
    /\ fn = "none"
    /\ fn' = "get_degree_within_sign"
    /\ ret' = get_degree_within_sign(args.degree)
    /\ UNCHANGED << args, svcVars >>

NextRashi == ApplyGetRashi \/ ApplyGetDegreeWithinSign

SpecRashi == InitRashi /\ [][NextRashi]_vars

\* floor((d mod 360) / 30) over the reals
MathRashiIndex(d) == (d % Deg(360)) \div Deg(30)

\* C10: get_rashi is total and periodic: for every degree d it returns
\* RASHIS[floor((d mod 360) / 30)], one of the 12 sign names, and the same
\* name for d + 360k.
C10_RashiTotalPeriodic ==
    fn = "get_rashi" =>
        /\ ret \in RashiNames
        /\ ret = RASHIS[MathRashiIndex(args.degree) + 1]
        /\ \A k \in (0 - MaxTurns) .. MaxTurns :
              Representable(args.degree + Deg(360 * k)) =>
                  get_rashi(args.degree + Deg(360 * k)) = ret

\* the index of a sign name in RASHIS, counted from 0
IndexOfRashi(name) == CHOOSE i \in 0..11 : RASHIS[i + 1] = name

\* C11: for every degree d, get_degree_within_sign(d) lies in [0,30) and
\* normalize(d) = 30 * index(get_rashi(d)) + get_degree_within_sign(d): the
\* degree reported is the offset inside the sign reported.
C11_DegreeWithinReportedSign ==
    fn = "get_degree_within_sign" =>
        /\ 0 <= ret
        /\ ret < Deg(30)
        /\ get_rashi(args.degree) \in RashiNames
        /\ normalize_degree(args.degree) =
              Deg(30) * IndexOfRashi(get_rashi(args.degree)) + ret

----------------------------------------------------------------------------
(* The separation used for combustion, over longitudes in [0,360) *)

\* the spacing of the floats between 64 and 128 degrees
Ulp64 == Pow2(FracBits - MantBits + 7)

\* whole degrees, a magnitude below the resolution at 180, and longitudes
\* one float above a whole degree, as an ephemeris gives them
LongitudeInputs ==
    { Deg(n) : n \in 0..359 } \cup { Tiny } \cup { Deg(n) + Ulp64 : n \in { 64, 100, 127 } }

\* the second longitude: every 15 degrees and the neighbours of 0 and 180, so
\* that with LongitudeInputs every whole-degree difference occurs at each
AnchorInputs ==
    { Deg(n) : n \in { m \in 0..359 : m % 15 = 0 \/ m \in { 1, 179, 181, 359 } } }
        \cup { Tiny }

InitAngle == HarnessInit({ [ planet_degree |-> x, sun_degree |-> y ] : x \in LongitudeInputs, y \in AnchorInputs })

ApplyAngularDistance ==
    /\ fn = "none"
    /\ fn' = "angular_distance"
    /\ ret' = angular_distance(args.planet_degree, args.sun_degree)
    /\ UNCHANGED << args, svcVars >>

NextAngle == ApplyAngularDistance

SpecAngle == InitAngle /\ [][NextAngle]_vars

\* C9: the separation is symmetric and bounded: separation(A,B) =
\* separation(B,A) and 0 <= separation(A,B) <= 180 for all longitudes in
\* [0,360), the antipodal case included.
C9_SeparationSymmetricBounded ==
    fn = "angular_distance" =>
        /\ ret = angular_distance(args.sun_degree, args.planet_degree)
        /\ 0 <= ret
        /\ ret <= Deg(180)

----------------------------------------------------------------------------
(* get_planet_positions over ephemeris answers *)

\* separations from the Sun given to the bodies, in whole degrees
Offsets == << 0, 8, 10, 11, 90, 170, 180, 190, 270, 349, 350, 352 >>

\* the calc_ut answers for one Julian Day: the Sun at sun degrees, the
\* i-th other body at the (i + k)-th offset from it, speeds alternating in
\* sign from r
Sky(sun, k, r) ==
    [ p \in PlanetIds |->
        LET i == CHOOSE j \in 1..8 : PLANETS[j] = p
        IN  [ lon   |-> IF p = "Sun" THEN Deg(sun)
                        ELSE Deg((sun + Offsets[((i + k) % Len(Offsets)) + 1]) % 360),
              speed |-> IF (i + k + r) % 2 = 0 THEN 0 - 1 ELSE 1 ] ]

InitPlanets ==
    HarnessInit({ [ eph |-> Sky(sun, k, r) ] :
                    sun \in 0..359, k \in 0..(Len(Offsets) - 1), r \in 0..1 })

ApplyGetPlanetPositions ==
    /\ fn = "none"
    /\ fn' = "get_planet_positions"
    /\ ret' = get_planet_positions(args.eph)
    /\ UNCHANGED << args, svcVars >>

NextPlanets == ApplyGetPlanetPositions

SpecPlanets == InitPlanets /\ [][NextPlanets]_vars

\* abs(((a - b + 180) mod 360) - 180) over the reals
MathSeparation(a, b) == Abs(((a - b + Deg(180)) % Deg(360)) - Deg(180))

----------------------------------------------------------------------------
(* House signs and planet assignment over cusp sequences *)

\* widths, in whole degrees, of houses 1..11 (the twelfth closes the circle)
EqualWidths     == << 30, 30, 30, 30, 30, 30, 30, 30, 30, 30, 30 >>
UnequalWidths   == << 20, 25, 45, 45, 25, 20, 20, 25, 45, 45, 25 >>
SkewedWidths    == << 40, 35, 15, 15, 35, 40, 40, 35, 15, 15, 35 >>
ClusteredWidths == << 10, 10, 10, 10, 10, 10, 10, 10, 10, 10, 10 >>

WidthPatterns == { EqualWidths, UnequalWidths, SkewedWidths, ClusteredWidths }

RECURSIVE CuspAt(_, _, _)
CuspAt(asc, widths, n) ==
    IF n = 1 THEN asc ELSE (CuspAt(asc, widths, n - 1) + widths[n - 1]) % 360

\* the 12 cusps starting at the Ascendant asc
CuspSeq(asc, widths) == [ n \in 1..12 |-> Deg(CuspAt(asc, widths, n)) ]

\* the array forms houses_ex returns the 12 cusps in: 12 entries, or 13
\* with an unused entry 0
CuspArrays(asc, widths) ==
    { CuspSeq(asc, widths), << 0 >> \o CuspSeq(asc, widths) }

Ascendants == { a \in 0..359 : a % 5 = 0 \/ a % 30 = 29 }

HouseSkies == { Sky(sun, k, 0) : sun \in { 0, 125, 250 }, k \in { 0, 3, 6, 9 } }

InitHouses ==
    HarnessInit({ [ cusps |-> c, eph |-> e ] :
                    c \in UNION { CuspArrays(a, w) : a \in Ascendants, w \in WidthPatterns },
                    e \in HouseSkies })

\* lines 576-579 of generate_clean_json_output on the adapters' answers
ApplyAssignPlanetsToHouses ==
    /\ fn = "none"
    /\ fn' = "assign_planets_to_houses"
    /\ LET planets     == get_planet_positions(args.eph)
           house_cusps == get_houses(args.cusps)
           house_signs == get_house_signs(house_cusps)
       IN  ret' = [ planets       |-> planets,
                    house_cusps   |-> house_cusps,
                    house_signs   |-> house_signs,
                    house_planets |-> assign_planets_to_houses(planets, house_signs) ]
    /\ UNCHANGED << args, svcVars >>

NextHouses == ApplyAssignPlanetsToHouses

SpecHouses == InitHouses /\ [][NextHouses]_vars

\* the houses whose list holds planet p
HousesOf(house_planets, p) == { n \in 1..12 : p \in Range(house_planets[n]) }

\* C1: for every 12 cusps and nine planets, a planet is in house n exactly
\* when the rashi of its longitude is house n's rashi, and every planet is
\* in exactly one house.
C1_SignMatchExactlyOneHouse ==
    fn = "assign_planets_to_houses" =>
        \A p \in PlanetNames :
            /\ \A n \in 1..12 :
                  n \in HousesOf(ret.house_planets, p)
                      <=> RASHIS[MathRashiIndex(ret.planets[p].degree) + 1] = ret.house_signs[n]
            /\ Cardinality(HousesOf(ret.house_planets, p)) = 1

\* C2: the 12 house rashis are the 12 sign names without repeats, in
\* zodiacal order from the sign of cusp[0]: house n has
\* RASHIS[(index(rashi_of(cusp[0])) + n - 1) mod 12].
C2_WholeSignFromAscendant ==
    fn = "assign_planets_to_houses" =>
        /\ Range(ret.house_signs) = RashiNames
        /\ \A n \in 1..12 :
              ret.house_signs[n] =
                  RASHIS[((MathRashiIndex(ret.house_cusps[1]) + n - 1) % 12) + 1]

\* the houses carrying rashi r
HousesWithRashi(house_signs, r) == { n \in 1..12 : house_signs[n] = r }

\* C17: the scan is first-match over houses 1..12: of the houses carrying a
\* planet's rashi only the lowest-numbered lists the planet, the
\* higher-numbered ones do not, and no planet is listed in two houses.
C17_FirstMatchLowestHouse ==
    fn = "assign_planets_to_houses" =>
        \A p \in PlanetNames :
            LET same == HousesWithRashi(ret.house_signs, ret.planets[p].rashi)
            IN  /\ \A n \in same :
                      n \in HousesOf(ret.house_planets, p) <=> (\A j \in same : n <= j)
                /\ Cardinality(HousesOf(ret.house_planets, p)) <= 1

C17_Witness ==
    /\ fn = "assign_planets_to_houses"
    /\ \E p \in PlanetNames :
          LET same == HousesWithRashi(ret.house_signs, ret.planets[p].rashi)
          IN  /\ Cardinality(same) >= 2
              /\ \E n \in same :
                    /\ HousesOf(ret.house_planets, p) = { n }
                    /\ \A j \in same : n <= j

----------------------------------------------------------------------------
(* Requests computed at once by threads sharing the ephemeris library *)

\* the library calls of one chart computation, in program order:
\* get_planet_positions (line 573), then get_houses (line 576)
library_calls == get_planet_positions_calls \o get_houses_calls

\* the call thread t makes next, "return" once all are made
NextCall(t) ==
    IF threads[t].done < Len(library_calls)
    THEN library_calls[threads[t].done + 1] ELSE "return"

Advance(t, own_set) ==
    threads' = [ threads EXCEPT ![t] = [ done |-> @.done + 1, own_set |-> own_set ] ]

InitShared ==
    /\ fn = "none"
    /\ args = << >>
    /\ ret = "pending"
    /\ ServiceIdle

\* swe.set_sid_mode(swe.SIDM_LAHIRI)
SetSidMode(t) ==
    /\ NextCall(t) = "set_sid_mode"
    /\ sid_mode' = "SIDM_LAHIRI"
    /\ Advance(t, TRUE)
    /\ UNCHANGED << fnVars, request, env, response, calls, chart >>

\* swe.calc_ut for the next body
CalcUt(t) ==
    /\ NextCall(t) = "calc_ut"
    /\ Advance(t, threads[t].own_set)
    /\ UNCHANGED << fnVars, request, env, response, calls, chart, sid_mode >>

\* swe.houses_ex
HousesEx(t) ==
    /\ NextCall(t) = "houses_ex"
    /\ Advance(t, threads[t].own_set)
    /\ UNCHANGED << fnVars, request, env, response, calls, chart, sid_mode >>

\* the call raises: the request ends in the except branch and the thread
\* takes the next request
CallRaises(t) ==
    /\ NextCall(t) \in { "calc_ut", "houses_ex" }
    /\ threads' = [ threads EXCEPT ![t] = NotStarted ]
    /\ UNCHANGED << fnVars, request, env, response, calls, chart, sid_mode >>

\* the computation returns and the thread takes the next request
Return(t) ==
    /\ NextCall(t) = "return"
    /\ threads' = [ threads EXCEPT ![t] = NotStarted ]
    /\ UNCHANGED << fnVars, request, env, response, calls, chart, sid_mode >>

NextShared ==
    \E t \in Threads :
        SetSidMode(t) \/ CalcUt(t) \/ HousesEx(t) \/ CallRaises(t) \/ Return(t)

SpecShared == InitShared /\ [][NextShared]_vars

\* thread t makes a calc_ut or houses_ex call in this step
MakesEphemerisCall(t) ==
    /\ NextCall(t) \in { "calc_ut", "houses_ex" }
    /\ threads'[t].done = threads[t].done + 1

\* C13: in every interleaving of computations sharing the library, each
\* calc_ut and houses_ex call runs while the mode is Lahiri, and the request
\* making the call has set the mode itself earlier.
C13_CallsUnderOwnLahiri ==
    [][ \A t \in Threads :
            MakesEphemerisCall(t) =>
                (sid_mode = "SIDM_LAHIRI" /\ threads[t].own_set) ]_vars

\* one request is among its calc_ut calls while another has made all of its
\* calls, houses_ex included
C13_Witness ==
    \E t, u \in Threads :
        /\ threads[t].done \in 3..8
        /\ threads[u].done = Len(library_calls)
        /\ sid_mode = "SIDM_LAHIRI"

----------------------------------------------------------------------------
(* The service: requests answered one after another *)

\* field values of request bodies
D(a, b) == PyStr(<< a, b >>)

Profile(ddd, mmm, yyyy, hh, mm, place) ==
    Dict(required_fields,
         [ f \in Range(required_fields) |->
             CASE f = "ddd" -> ddd [] f = "mmm" -> mmm [] f = "yyyy" -> yyyy
               [] f = "hh" -> hh [] f = "mm" -> mm [] f = "place" -> place ])

\* the dict with only the keys of d listed in keys
Only(d, keys) == Dict(keys, [ f \in Range(keys) |-> d.vals[f] ])

Y1995 == PyStr(<< "1", "9", "9", "5" >>)

DefaultProfile == Profile(D("0", "9"), D("1", "0"), Y1995, D("0", "8"), D("2", "2"),
                          PyStr(<< "Samastipur" >>))

UnpaddedProfile == Profile(PyStr(<< "9" >>), PyStr(<< "1" >>), PyStr(<< "2", "0", "0", "1" >>),
                           PyStr(<< "8" >>), PyStr(<< "5" >>), PyStr(<< "Delhi" >>))

\* the numbers left by the repair of {"ddd": 09, ...}
NumberProfile == Profile(PyInt(9), PyInt(10), PyInt(1995), PyInt(8), PyInt(22),
                         PyStr(<< "Samastipur" >>))

Day32Profile == [ DefaultProfile EXCEPT !.vals["ddd"] = D("3", "2") ]

Hour24Profile == [ DefaultProfile EXCEPT !.vals["hh"] = D("2", "4") ]

BadMinuteProfile == [ DefaultProfile EXCEPT !.vals["mm"] = PyStr(<< "x", "x" >>) ]

NumberPlaceProfile == [ DefaultProfile EXCEPT !.vals["place"] = PyInt(5) ]

TemplateValue == PyStr(<< "{", "variableID", "}" >>)

TemplateProfile == [ DefaultProfile EXCEPT !.vals["place"] = TemplateValue ]

CompleteBodies ==
    { DefaultProfile, UnpaddedProfile, NumberProfile, Day32Profile, Hour24Profile,
      BadMinuteProfile, NumberPlaceProfile, TemplateProfile }

IncompleteBodies ==
    { EmptyDict,
      Only(DefaultProfile, << "ddd", "mmm", "yyyy", "hh", "mm" >>),
      Only(DefaultProfile, << "place" >>),
      Only(DefaultProfile, << "ddd", "yyyy", "place" >>),
      Only(TemplateProfile, << "place", "ddd" >>) }

JsonValues == CompleteBodies \cup IncompleteBodies \cup { None, List(<< 1 >>), List(<< >>) }

Parsed(v) == [ ok |-> TRUE, value |-> v ]
Unparsed  == [ ok |-> FALSE, value |-> None ]

PostRequests ==
    { [ method |-> "POST", is_json |-> TRUE, strict |-> Parsed(v), fixed |-> Unparsed ] :
        v \in JsonValues }
    \cup
    { [ method |-> "POST", is_json |-> TRUE, strict |-> Unparsed, fixed |-> f ] :
        f \in { Unparsed, Parsed(NumberProfile), Parsed(Only(NumberProfile, << "ddd", "mm" >>)) } }
    \cup
    { [ method |-> "POST", is_json |-> FALSE, strict |-> Unparsed, fixed |-> Unparsed ] }

\* the collaborators' answers
Samastipur == [ kind |-> "location", lat |-> 2586512, lon |-> 8578337 ]

ServiceSkies == { Sky(355, 1, 0), Sky(100, 5, 1), Sky(0, 9, 0) }

CuspAnswers ==
    { CuspSeq(100, EqualWidths),
      << 0 >> \o CuspSeq(100, EqualWidths),
      CuspSeq(15, UnequalWidths),
      CuspSeq(0, ClusteredWidths),
      SubSeq(CuspSeq(100, EqualWidths), 1, 5),
      << >>,
      CuspSeq(0, ClusteredWidths) \o << Deg(150), Deg(200) >>,
      CuspSeq(100, EqualWidths) \o << Deg(0), Deg(30) >> }

Answers(geocode, timezone, calc_ut, houses_ex) ==
    [ geocode |-> geocode, timezone |-> timezone, calc_ut |-> calc_ut, houses_ex |-> houses_ex ]

Raises == [ kind |-> "error" ]

\* one answer per collaborator asked: a collaborator that raises, or finds
\* nothing, ends the computation and the later ones are not asked
Envs ==
    { Answers([ kind |-> k ], "unasked", Unasked, Unasked) : k \in { "error", "none" } }
    \cup { Answers(Samastipur, "none", Unasked, Unasked) }
    \cup { Answers(Samastipur, "Asia/Kolkata", Raises, Unasked) }
    \cup { Answers(Samastipur, "Asia/Kolkata", [ kind |-> "ok", xx |-> sky ], h) :
             sky \in ServiceSkies,
             h \in { Raises } \cup { [ kind |-> "ok", cusps |-> c ] : c \in CuspAnswers } }

\* the answers actually given during a request
Given(e, made) ==
    [ geocode   |-> IF "geocode" \in Range(made) THEN e.geocode ELSE Unasked,
      timezone  |-> IF "timezone_at" \in Range(made) THEN e.timezone ELSE "unasked",
      calc_ut   |-> IF "calc_ut" \in Range(made) THEN e.calc_ut ELSE Unasked,
      houses_ex |-> IF "houses_ex" \in Range(made) THEN e.houses_ex ELSE Unasked ]

Init ==
    /\ fn = "none"
    /\ args = << >>
    /\ ret = "pending"
    /\ ServiceIdle

\* one request answered; mode is the library's mode when it arrives
Answer(req, e, mode, o) ==
    /\ mode = sid_mode
    /\ request' = req
    /\ env' = Given(e, o.calls)
    /\ response' = [ status |-> o.status, body |-> o.body ]
    /\ calls' = o.calls
    /\ chart' = o.trace
    /\ sid_mode' = IF o.sid_set THEN "SIDM_LAHIRI" ELSE sid_mode
    /\ UNCHANGED << fnVars, threads >>

KundliPost ==
    \E req \in PostRequests, e \in Envs, mode \in SidModes :
        Answer(req, e, mode, kundli_post(req, e, mode))

KundliGet ==
    \E e \in Envs, mode \in SidModes :
        Answer([ method |-> "GET" ], e, mode, kundli_get(e, mode))

HealthCheck ==
    \E mode \in SidModes : Answer([ method |-> "HEALTH" ], NoEnv, mode, health_check)

Next == KundliPost \/ KundliGet \/ HealthCheck

Spec == Init /\ [][Next]_vars

MainCalled == "main" \in Range(calls)

\* the JSON value the POST branch works on
DataJson(req) == IF req.strict.ok THEN req.strict.value ELSE req.fixed.value

Parses(req) == req.is_json /\ (req.strict.ok \/ req.fixed.ok)

HasError(result) == "error" \in DOMAIN result

EphemerisCalled == "calc_ut" \in Range(calls) \/ "houses_ex" \in Range(calls)

\* C3: every value generate_clean_json_output returns is an error result
\* with no houses or a chart with exactly the houses 1..12 in order; never
\* an error with houses, never 1 to 11 houses.
C3_ErrorOrCompleteChart ==
    (request.method = "POST" /\ MainCalled) =>
        \/ /\ HasError(chart.result)
           /\ chart.result.houses = << >>
        \/ /\ ~ HasError(chart.result)
           /\ Len(chart.result.houses) = 12
           /\ \A n \in 1..12 : chart.result.houses[n].house_number = n

\* the adapter answered with 5 cusps: the loop over the houses raised after
\* five of them, and the result is the error with no houses
C3_Witness ==
    /\ request.method = "POST"
    /\ MainCalled
    /\ chart.raised = IndexError
    /\ Len(chart.computed.house_signs) = 5
    /\ HasError(chart.result)
    /\ chart.result.houses = << >>

\* the birth data main is called with for req
BirthData(req) == IF req.method = "POST" THEN DataJson(req) ELSE None

\* C12: the chart main returns depends on the birth data and the
\* collaborators' answers only: after whatever requests came before, it is
\* the chart the same call returns in a process that has computed nothing.
C12_SameChartWhateverCameBefore ==
    MainCalled =>
        \A m \in SidModes : chart.result = main(BirthData(request), env, m).result

\* a complete chart computed in a process where an earlier request left the
\* library in Lahiri mode
C12_Witness ==
    /\ request.method = "POST"
    /\ MainCalled
    /\ chart.raised = "none"
    /\ chart.computed.mode = "SIDM_LAHIRI"
    /\ ~ HasError(chart.result)
    /\ Len(chart.result.houses) = 12

\* C14: on every path that composes the birth strings the day, hour and
\* minute are zero-padded to width 2: the date is YYYY-MM-DD and the time
\* HH:MM (08:22 for the static profile).
C14_BirthStringsPadded ==
    MainCalled =>
        /\ Len(chart.birthdate) = 10
        /\ chart.birthdate[5] = "-"
        /\ chart.birthdate[8] = "-"
        /\ Len(chart.birthtime) = 5
        /\ chart.birthtime[3] = ":"
        /\ (request.method = "GET" => chart.birthtime = << "0", "8", ":", "2", "2" >>)

\* the computation got as far as assigning planets to houses
Assigned == MainCalled /\ "house_planets" \in DOMAIN chart.computed

\* the planets whose rashi is the rashi of none of the houses 1..12
Unplaced ==
    { p \in PlanetNames :
        \A n \in 1..12 :
            n \in DOMAIN chart.computed.house_signs =>
                chart.computed.house_signs[n] # chart.computed.planets[p].rashi }

\* C15: when some planet's rashi is the rashi of none of the 12 houses, the
\* computation reports an error and returns no chart from which the planet
\* is missing.
C15_UnplacedPlanetIsError ==
    (request.method = "POST" /\ Assigned /\ Unplaced # { }) =>
        HasError(chart.result)

PlaceNotFound == "ValueError: Could not geocode place"

OtherFailures ==
    { "ValueError: Could not determine timezone",
      "ValueError: time data does not match format",
      "swisseph.Error: calc_ut",
      "swisseph.Error: houses_ex" }

\* C4: when the geocoder finds no location the computation ends in an error
\* that tells PlaceNotFound apart from a time-parse, timezone or ephemeris
\* failure, no ephemeris call is made and no chart is returned.
C4_PlaceNotFoundIdentified ==
    /\ [](( request.method = "POST" /\ MainCalled /\ chart.raised = PlaceNotFound ) =>
            /\ HasError(chart.result)
            /\ chart.result.houses = << >>
            /\ response.status = 500
            /\ ~ EphemerisCalled)
    /\ [][( /\ request.method = "POST" /\ MainCalled /\ chart.raised \in OtherFailures
            /\ request'.method = "POST" /\ chart'.raised = PlaceNotFound )
          => response'.body # response.body]_vars

InvalidTimeInput == "ValueError: time data does not match format"

PlaceAndEphemerisFailures ==
    { PlaceNotFound, "GeocoderError", "ValueError: Could not determine timezone",
      "swisseph.Error: calc_ut", "swisseph.Error: houses_ex" }

\* C16: when the composed date or time does not parse, the computation
\* fails, neither the Julian Day conversion nor an ephemeris call runs, and
\* the failure reported for the time is told apart from a place or
\* ephemeris failure.
C16_InvalidTimeIdentified ==
    /\ [](( /\ request.method = "POST" /\ MainCalled
            /\ ~ strptime(chart.birthdate, chart.birthtime).ok ) =>
              /\ HasError(chart.result)
              /\ \A i \in 1..Len(calls) : calls[i] # "julday"
              /\ ~ EphemerisCalled)
    /\ [][( /\ request.method = "POST" /\ MainCalled
            /\ chart.raised \in PlaceAndEphemerisFailures
            /\ request'.method = "POST" /\ chart'.raised = InvalidTimeInput )
          => response'.body # response.body]_vars

\* the fields the interface requires that the JSON object d does not hold,
\* in the order ddd, mmm, yyyy, hh, mm, place
Lacking(d) ==
    SelectSeq(<< "ddd", "mmm", "yyyy", "hh", "mm", "place" >>,
              LAMBDA f : \A i \in 1..Len(d.keys) : d.keys[i] # f)

\* C5 as stated: a POST whose JSON body lacks a required field gets status
\* 400 naming the missing fields, and main is not called.
C5_MissingFieldsNamed ==
    ( /\ request.method = "POST"
      /\ Parses(request)
      /\ DataJson(request).py = "dict"
      /\ Lacking(DataJson(request)) # << >> ) =>
        /\ response.status = 400
        /\ response.body.error =
              << "Missing required fields:" >> \o Lacking(DataJson(request))
        /\ ~ MainCalled

\* C5, amended: such a POST gets status 400 and main is not called, so no
\* collaborator is asked; the 400 names the missing fields when the object
\* is not empty and holds no template value, and is the empty-JSON or the
\* template error otherwise.
C5_MissingFieldsRejected ==
    ( /\ request.method = "POST"
      /\ Parses(request)
      /\ DataJson(request).py = "dict"
      /\ Lacking(DataJson(request)) # << >> ) =>
        /\ response.status = 400
        /\ calls = << >>
        /\ env = NoEnv
        /\ response.body.error =
              IF DataJson(request).keys = << >>
              THEN << "No JSON data provided or empty JSON" >>
              ELSE IF \E k \in Range(DataJson(request).keys) :
                          IsTemplate(DataJson(request).vals[k])
              THEN << "Voiceflow template variables detected" >>
              ELSE << "Missing required fields:" >> \o Lacking(DataJson(request))

\* day, year and place given: the 400 names mmm, hh and mm
C5_Witness ==
    /\ request.method = "POST"
    /\ Parses(request)
    /\ DataJson(request).py = "dict"
    /\ DataJson(request).keys = << "ddd", "yyyy", "place" >>
    /\ response.status = 400
    /\ response.body.error = << "Missing required fields:", "mmm", "hh", "mm" >>
    /\ calls = << >>

\* C6: a GET answers with success and, as kundli_data, the chart of the
\* static default profile: the chart a POST of the six default fields gets
\* from the same collaborators.
C6_GetReturnsDefaultChart ==
    (request.method = "GET" /\ chart.raised = "none") =>
        /\ response.status = 200
        /\ response.body.success
        /\ response.body.kundli_data = main(DefaultProfile, env, sid_mode).result

\* the request went through the validation and main was called with it
PassedValidation == request.method = "POST" /\ MainCalled

\* C19: for a POST that passes validation the status is 500 exactly when
\* the result of main has an "error" key, the body then being that result,
\* and otherwise 200 with success true and the result as kundli_data; a
\* computation in which anything was raised is answered 500.
C19_ErrorResultIs500 ==
    PassedValidation =>
        /\ response.status = 500 <=> HasError(chart.result)
        /\ HasError(chart.result) => response.body = chart.result
        /\ ~ HasError(chart.result) =>
              /\ response.status = 200
              /\ response.body = [ success |-> TRUE, kundli_data |-> chart.result ]
        /\ chart.raised # "none" => response.status = 500

\* a geocode failure answered 500 with the error result as body
C19_Witness ==
    /\ PassedValidation
    /\ env.geocode.kind \in { "error", "none" }
    /\ chart.raised \in { "GeocoderError", "ValueError: Could not geocode place" }
    /\ response.status = 500
    /\ HasError(response.body)
    /\ response.body = chart.result

----------------------------------------------------------------------------
(* generate_kundli_data beside generate_clean_json_output *)

\* planet_rashi == house_rashi (line 256) when house_rashi is one of the
\* floats of house_cusps: a str and a float are never equal
str_eq_float(planet_rashi, cusp) == FALSE

\* the house_num at which the inner loop breaks when it scans house_cusps
first_match_among_cusps(planet_rashi, house_cusps) ==
    IF \E i \in 1..Len(house_cusps) : str_eq_float(planet_rashi, house_cusps[i])
    THEN CHOOSE i \in 1..Len(house_cusps) :
            /\ str_eq_float(planet_rashi, house_cusps[i])
            /\ \A j \in 1..(i - 1) : ~ str_eq_float(planet_rashi, house_cusps[j])
    ELSE 0

\* line 465: assign_planets_to_houses(planets, house_cusps)
assign_planets_to_cusps(planets, house_cusps) ==
    [ house_num \in 1..12 |->
        SelectSeq(PlanetOrder,
                  LAMBDA p : first_match_among_cusps(planets[p].rashi, house_cusps) = house_num) ]

\* lines 486-493: the entries of a house's "planets"
planet_infos(planets, planets_in_house) ==
    [ i \in 1..Len(planets_in_house) |->
        LET planet_data == planets[planets_in_house[i]]
        IN  [ degree     |-> fmt2(get_degree_within_sign(planet_data.degree)),
              name       |-> planets_in_house[i],
              retrograde |-> planet_data.retrograde,
              combust    |-> planet_data.combust ] ]

\* lines 509-523: result["rashis"][rashi] is written once per house, so a
\* rashi carried by several houses keeps the entry of the last of them
rashis_section(planets, house_signs) ==
    [ r \in { house_signs[n] : n \in 1..12 } |->
        [ house_number |-> CHOOSE n \in 1..12 :
                              /\ house_signs[n] = r
                              /\ \A j \in (n + 1)..12 : house_signs[j] # r,
          planets      |->
              LET planets_in_rashi == SelectSeq(PlanetOrder, LAMBDA p : planets[p].rashi = r)
              IN  [ i \in 1..Len(planets_in_rashi) |->
                      [ degree |-> fmt2(get_degree_within_sign(
                                            planets[planets_in_rashi[i]].degree)),
                        name   |-> planets_in_rashi[i] ] ] ] ]

\* the dict built by lines 468-523
kundli_result(b, c, house_planets, timezone_str) ==
    [ houses        |-> [ house_num \in 1..12 |->
                            [ house_number |-> house_num,
                              rashi        |-> c.house_signs[house_num],
                              planets      |-> planet_infos(c.planets,
                                                            house_planets[house_num]) ] ],
      planets       |-> [ p \in PlanetNames |->
                            [ degree         |-> fmt2(c.planets[p].degree),
                              rashi          |-> c.planets[p].rashi,
                              retrograde     |-> c.planets[p].retrograde,
                              combust        |-> c.planets[p].combust,
                              degree_in_sign |->
                                  fmt2(get_degree_within_sign(c.planets[p].degree)) ] ],
      birth_details |-> [ date        |-> b.birthdate,
                          time        |-> b.birthtime,
                          timezone    |-> timezone_str,
                          place       |-> b.place.chars,
                          coordinates |-> << c.lat, c.lon >> ],
      rashis        |-> rashis_section(c.planets, c.house_signs) ]

\* the dict returned by the except branch of generate_kundli_data
CalculationFailed(raised, birth_data) ==
    [ error         |-> << "Calculation failed:", raised >>,
      birth_details |-> IF Truthy(birth_data) THEN birth_data ELSE EmptyDict ]

\* lines 431-538; the assignment over house_cusps raises nothing, and
\* house_signs[house_num - 1] (line 477) raises IndexError when fewer than
\* 12 signs came back
generate_kundli_data(birth_data, e, mode) ==
    LET b == birth_strings(birth_data)
        c == compute_chart(b.place, b.birthdate, b.birthtime, e, mode)
    IN  IF c.raised \notin { "none", KeyError }
        THEN CalculationFailed(c.raised, birth_data)
        ELSE IF Len(c.house_signs) < 12
        THEN CalculationFailed(IndexError, birth_data)
        ELSE kundli_result(b, c, assign_planets_to_cusps(c.planets, c.house_cusps),
                           e.timezone)

KundliDataProfiles == { None, DefaultProfile, UnpaddedProfile, NumberProfile, Day32Profile }

InitKundliData ==
    HarnessInit({ [ mode |-> m, birth_data |-> d, answers |-> e ] :
                    m \in SidModes, d \in KundliDataProfiles, e \in Envs })

\* generate_kundli_data called on the inputs held in args returns result
KundliDataReturns(birth_data, e, mode, result) ==
    /\ fn = "none"
    /\ args = [ mode |-> mode, birth_data |-> birth_data, answers |-> e ]
    /\ fn' = "generate_kundli_data"
    /\ ret' = result
    /\ UNCHANGED << args, svcVars >>

ApplyGenerateKundliData ==
    \E birth_data \in KundliDataProfiles, e \in Envs, mode \in SidModes :
        KundliDataReturns(birth_data, e, mode, generate_kundli_data(birth_data, e, mode))

NextKundliData == ApplyGenerateKundliData

SpecKundliData == InitKundliData /\ [][NextKundliData]_vars

\* the planets a list of planet entries names
Named(entries) == { entries[i].name : i \in 1..Len(entries) }

\* C18: for the same birth data and the same answers, whenever both
\* functions return a chart, house n has the same rashi in both, and a
\* planet is in house n of generate_kundli_data's "houses" exactly when it is
\* in house n of generate_clean_json_output's "houses", and exactly when
\* generate_kundli_data's "rashis" lists it under house n's rashi.
C18_KundliDataAgreesWithCleanJson ==
    fn = "generate_kundli_data" =>
        LET clean == generate_clean_json_output(args.birth_data, args.answers, args.mode).result
        IN  (~ HasError(ret) /\ ~ HasError(clean)) =>
                \A n \in 1..12 :
                    /\ ret.houses[n].rashi = clean.houses[n].rashi
                    /\ Named(ret.houses[n].planets) = Named(clean.houses[n].planets)
                    /\ Named(ret.houses[n].planets)
                           = Named(ret.rashis[ret.houses[n].rashi].planets)

====
